---- MODULE Spec2Model ----
(***************************************************************************)
(* Model of drivers/pwm/pwm-bcm2835.c: the BCM2835 PWM driver.             *)
(*                                                                         *)
(* 32-bit register words that are manipulated bitwise (control, clock,     *)
(* divisor, alt-function) are modelled as the set of bit positions that    *)
(* are 1, so that | is \cup, & is \cap and ~ is complement in 0..31.       *)
(* The duty and period registers hold tick counts and are modelled as      *)
(* naturals.                                                               *)
(***************************************************************************)
EXTENDS Integers, Sequences, FiniteSets, TLC

(* ------------------------------------------------------------------ *)
(* Program constants                                                  *)
(* ------------------------------------------------------------------ *)

\* pwm->chip.npwm = 2
NPWM == 2

Channels == 0 .. (NPWM - 1)

Word == 0 .. 31

\* #define PWM_ENABLE 0x00000001
PWM_ENABLE == {0}

\* #define PWM_POLARITY 0x00000010
PWM_POLARITY == {4}

\* #define MASK_CTL_PWM 0x000000FF
MASK_CTL_PWM == 0 .. 7

\* #define CTL_PWM 0x00000081
CTL_PWM == {0, 7}

\* #define ALTOR 0x02000000
ALTOR == {25}

\* #define ALTAND 0xFAFFFFFF
ALTAND == Word \ {24, 26}

\* #define PWMCLK_CNTL_OFF 0x5A000000 | (1 << 5)
PWMCLK_CNTL_OFF == {30, 28, 27, 25} \cup {5}

\* #define PWMCLK_CNTL_ON 0x5A000000 | 0x11
PWMCLK_CNTL_ON == {30, 28, 27, 25} \cup {4, 0}

\* #define PWMCLK_DIV 0x5A000000 | (19 << 12)
PWMCLK_DIV == {30, 28, 27, 25} \cup {16, 13, 12}

\* the literal divisor of duty_ns/1000 and period_ns/1000
NsPerTick == 1000

\* enum pwm_polarity
Polarities == {"PWM_POLARITY_NORMAL", "PWM_POLARITY_INVERSED"}

\* the six global register pointers
Regs == {"PWM", "PERIOD", "DUTY", "CLK", "ALT", "DIV"}

Threads == {1, 2}

(* ------------------------------------------------------------------ *)
(* Inputs drawn by the model                                          *)
(* ------------------------------------------------------------------ *)

\* <<duty_ns, period_ns>> pairs handed to the config callback; the PWM
\* core only forwards 0 <= duty_ns <= period_ns, period_ns > 0
ConfigArgs == {<<50, 108>>, <<1999, 2999>>, <<100000, 300000>>}

\* at most this many of the ioremap_nocache calls of one probe fail
MaxFail == 2

FailSets == {b \in SUBSET Regs : Cardinality(b) <= MaxFail}

\* what the environment does to one probe: an early failure, or a run of
\* the mapping sequence in which the mappings in the set fail
ProbeInputs == {<<"alloc", {}>>, <<"res", {}>>, <<"add", {}>>}
               \cup {<<"map", b>> : b \in FailSets}

\* register contents found by the driver when it is first bound
InitCtlSet == {s \cup t : s \in {{}, {0, 4}}, t \in {{}, {8, 12}}}

InitTickSet == {32}

InitAltSet == {{24, 26}}

(* ------------------------------------------------------------------ *)
(* State                                                              *)
(* ------------------------------------------------------------------ *)

VARIABLES
  ctl,        \* PWM control register (the word behind ptrPWM)
  duty,       \* duty register of each channel, at DUTY + i*CHANNEL
  period,     \* period register of each channel, at PERIOD + i*CHANNEL
  clk,        \* clock control register (the word behind ptrCLK)
  dv,         \* clock divisor register (the word behind ptrDIV)
  alt,        \* GPIO function select register (the word behind ptrALT)
  ptr,        \* state of each global pointer: "null", "mapped", "unmapped"
  registered, \* the chip is known to the PWM core (pwmchip_add .. pwmchip_remove)
  bound,      \* probe returned 0 and remove has not run yet
  drvdata,    \* platform_set_drvdata has stored the chip
  stale,      \* a chip was left registered by a remove whose pwmchip_remove failed
  oops,       \* a register access went through an unusable pointer
  hist,       \* the last (at most two) callbacks that returned, oldest first
  pc,         \* per execution context: position inside a callback
  tmp,        \* per execution context: the value returned by ioread32
  cur,        \* per execution context: the callback in progress
  ppc,        \* position of the driver core's context inside probe or remove
  binds       \* number of probe calls made one step at a time

vars == <<ctl, duty, period, clk, dv, alt, ptr, registered, bound, drvdata,
          stale, oops, hist, pc, tmp, cur, ppc, binds>>

hw == <<ctl, duty, period, clk, dv, alt>>

ctx == <<pc, tmp, cur>>

NoCall == [op |-> "none", hwpwm |-> 0, polarity |-> "none", duty_ns |-> 0,
           period_ns |-> 0, ret |-> 0, ctl |-> {}, duty |-> <<>>, period |-> <<>>]

\* the record of a callback: its arguments, its return value and the
\* registers as they were when it was entered
Call(op, i, pol, d, p, r) ==
  [op |-> op, hwpwm |-> i, polarity |-> pol, duty_ns |-> d, period_ns |-> p,
   ret |-> r, ctl |-> ctl, duty |-> duty, period |-> period]

\* of the older callback only the control register is remembered
Older(c) == [c EXCEPT !.duty_ns = 0, !.period_ns = 0, !.duty = <<>>, !.period = <<>>]

\* keep the two most recent callbacks
Push(h, c) == IF Len(h) = 0 THEN <<c>> ELSE <<Older(h[Len(h)]), c>>

Init ==
  /\ ctl \in InitCtlSet
  /\ \E t \in InitTickSet : /\ duty = [i \in Channels |-> t]
                            /\ period = [i \in Channels |-> t]
  /\ clk = {}
  /\ dv = {}
  /\ alt \in InitAltSet
  /\ ptr = [r \in Regs |-> "null"]
  /\ registered = FALSE
  /\ bound = FALSE
  /\ drvdata = FALSE
  /\ stale = FALSE
  /\ oops = FALSE
  /\ hist = <<>>
  /\ pc = [t \in Threads |-> "idle"]
  /\ tmp = [t \in Threads |-> {}]
  /\ cur = [t \in Threads |-> NoCall]
  /\ ppc = <<"idle", 0>>
  /\ binds = 0

(* ------------------------------------------------------------------ *)
(* Register access                                                    *)
(* ------------------------------------------------------------------ *)

\* An access through a mapped pointer works, one through a NULL pointer
\* faults, one through a pointer that was iounmap()ed may do either.
Usable(r, w) ==
  CASE ptr[r] = "mapped" -> w = TRUE
    [] ptr[r] = "null" -> w = FALSE
    [] OTHER -> w \in BOOLEAN

\* ns/1000 in C int arithmetic; the operands are non-negative, so the
\* quotient truncates and the 32-bit store keeps it as it is
Ticks(ns) == ns \div NsPerTick

\* the value enable writes back: ioread32(ptrPWM) | PWM_ENABLE
EnableVal(v) == v \cup PWM_ENABLE

\* disable with the mask applied without its complement
DisableValNoComplement(v) == v \cap PWM_ENABLE

\* the value disable writes back: ioread32(ptrPWM) & ~PWM_ENABLE
DisableVal(v) == v \cap (Word \ PWM_ENABLE)

\* set_polarity with the two branches exchanged
PolarityValSwapped(v, polarity) ==
  IF polarity = "PWM_POLARITY_NORMAL" THEN v \cup PWM_POLARITY
  ELSE IF polarity = "PWM_POLARITY_INVERSED" THEN v \cap (Word \ PWM_POLARITY)
  ELSE v

\* the value set_polarity writes back
PolarityVal(v, polarity) ==
  IF polarity = "PWM_POLARITY_NORMAL" THEN v \cap (Word \ PWM_POLARITY)
  ELSE IF polarity = "PWM_POLARITY_INVERSED" THEN v \cup PWM_POLARITY
  ELSE v

\* the mode pattern ORed in without clearing the field first
ProbeCtlValNoClear(v) == v \cup CTL_PWM

\* the value probe writes to the control register
ProbeCtlVal(v) == (v \cap (Word \ MASK_CTL_PWM)) \cup CTL_PWM

\* the value probe writes to the function select register
ProbeAltVal(v) == (v \cap ALTAND) \cup ALTOR

(* ------------------------------------------------------------------ *)
(* The pwm_ops callbacks, each as one step                            *)
(* ------------------------------------------------------------------ *)

\* config with a period floor that rejects short periods
ConfigRetChecked(period_ns) == IF period_ns <= 108 THEN -22 ELSE 0

\* the value config returns: return 0
ConfigRet(period_ns) == 0

\* the PWM core calls into the driver for any chip it still knows
Callable == (registered \/ stale) /\ ~oops

bcm2835_pwm_config(i, duty_ns, period_ns) ==
  /\ Callable
  /\ \A t \in Threads : pc[t] = "idle"
  /\ \E wd, wp \in BOOLEAN :
       /\ Usable("DUTY", wd)
       /\ Usable("PERIOD", wp)
       /\ IF ~wd
          THEN /\ oops' = TRUE
               /\ UNCHANGED <<duty, period, hist>>
          ELSE IF ~wp
          THEN /\ duty' = [duty EXCEPT ![0] = Ticks(duty_ns)]
               /\ oops' = TRUE
               /\ UNCHANGED <<period, hist>>
          ELSE /\ duty' = [duty EXCEPT ![0] = Ticks(duty_ns)]
               /\ period' = [period EXCEPT ![0] = Ticks(period_ns)]
               /\ hist' = Push(hist, Call("config", i, "none", duty_ns, period_ns,
                                       ConfigRet(period_ns)))
               /\ UNCHANGED oops
  /\ UNCHANGED <<ctl, clk, dv, alt, ptr, registered, bound, drvdata, stale, ctx, ppc, binds>>

\* the read-modify-write of the control register shared by enable,
\* disable and set_polarity
CtlUpdate(v, c) ==
  /\ Callable
  /\ \A t \in Threads : pc[t] = "idle"
  /\ \E w \in BOOLEAN :
       /\ Usable("PWM", w)
       /\ IF w
          THEN /\ ctl' = v
               /\ hist' = Push(hist, c)
               /\ UNCHANGED oops
          ELSE /\ oops' = TRUE
               /\ UNCHANGED <<ctl, hist>>
  /\ UNCHANGED <<duty, period, clk, dv, alt, ptr, registered, bound, drvdata,
                 stale, ctx, ppc, binds>>

bcm2835_pwm_enable(i) ==
  CtlUpdate(EnableVal(ctl), Call("enable", i, "none", 0, 0, 0))

bcm2835_pwm_disable(i) ==
  CtlUpdate(DisableVal(ctl), Call("disable", i, "none", 0, 0, 0))

bcm2835_set_polarity(i, polarity) ==
  CtlUpdate(PolarityVal(ctl, polarity), Call("set_polarity", i, polarity, 0, 0, 0))

(* ------------------------------------------------------------------ *)
(* probe and remove                                                   *)
(* ------------------------------------------------------------------ *)

\* the order of the ioremap_nocache calls in probe
MapOrder == <<"PWM", "DUTY", "PERIOD", "CLK", "ALT", "DIV">>

\* the pointer that probe compares with NULL after each ioremap_nocache
Tested == [PWM |-> "PWM", DUTY |-> "DUTY", PERIOD |-> "DUTY",
           CLK |-> "CLK", ALT |-> "ALT", DIV |-> "ALT"]

\* the mapping sequence of probe from its k-th ioremap_nocache on; ok is
\* the set of mappings that succeed
RECURSIVE MapFrom(_, _, _)
MapFrom(p, ok, k) ==
  IF k > Len(MapOrder) THEN [ptr |-> p, failed |-> FALSE]
  ELSE LET r == MapOrder[k]
           q == [p EXCEPT ![r] = IF r \in ok THEN "mapped" ELSE "null"]
       IN  IF q[Tested[r]] = "null" THEN [ptr |-> q, failed |-> TRUE]
           ELSE MapFrom(q, ok, k + 1)

bcm2835_pwm_probe(in) ==
  /\ ~bound
  /\ ~oops
  /\ \A t \in Threads : pc[t] = "idle"
  /\ IF in[1] = "alloc"
     THEN \* devm_kzalloc failed: return -ENOMEM
          /\ hist' = <<Call("probe", 0, "none", 0, 0, -12)>>
          /\ UNCHANGED <<hw, ptr, registered, bound, drvdata, oops>>
     ELSE IF in[1] = "res"
     THEN \* devm_ioremap_resource failed: return PTR_ERR
          /\ hist' = <<Call("probe", 0, "none", 0, 0, -16)>>
          /\ UNCHANGED <<hw, ptr, registered, bound, drvdata, oops>>
     ELSE IF in[1] = "add"
     THEN \* pwmchip_add failed: chip_failed
          /\ drvdata' = TRUE
          /\ hist' = <<Call("probe", 0, "none", 0, 0, -1)>>
          /\ UNCHANGED <<hw, ptr, registered, bound, oops>>
     ELSE LET m == MapFrom(ptr, Regs \ in[2], 1) IN
          /\ drvdata' = TRUE
          /\ ptr' = m.ptr
          /\ IF m.failed
             THEN \* map_failed: pwmchip_remove, return -1
                  /\ registered' = FALSE
                  /\ hist' = <<Call("probe", 0, "none", 0, 0, -1)>>
                  /\ UNCHANGED <<hw, bound, oops>>
             ELSE IF m.ptr["DIV"] = "null"
             THEN \* the divisor write goes through a NULL pointer
                  /\ registered' = TRUE
                  /\ alt' = ProbeAltVal(alt)
                  /\ clk' = PWMCLK_CNTL_OFF
                  /\ oops' = TRUE
                  /\ UNCHANGED <<ctl, duty, period, dv, bound, hist>>
             ELSE /\ registered' = TRUE
                  /\ alt' = ProbeAltVal(alt)
                  /\ dv' = PWMCLK_DIV
                  /\ clk' = PWMCLK_CNTL_ON
                  /\ ctl' = ProbeCtlVal(ctl)
                  /\ bound' = TRUE
                  /\ hist' = <<Call("probe", 0, "none", 0, 0, 0)>>
                  /\ UNCHANGED <<duty, period, oops>>
  /\ UNCHANGED <<stale, ctx, ppc, binds>>

\* the pointers remove hands to iounmap
Unmapped == {"ALT", "PWM", "CLK", "DUTY", "PERIOD"}

bcm2835_pwm_remove(busy) ==
  /\ bound
  /\ ~oops
  /\ \A t \in Threads : pc[t] = "idle"
  /\ bound' = FALSE
  /\ IF ~drvdata
     THEN \* WARN_ON(!pc): return -ENODEV
          /\ hist' = <<Call("remove", 0, "none", 0, 0, -19)>>
          /\ UNCHANGED <<ptr, registered, stale>>
     ELSE /\ ptr' = [r \in Regs |->
                       IF r \in Unmapped /\ ptr[r] = "mapped" THEN "unmapped"
                       ELSE ptr[r]]
          /\ registered' = FALSE
          /\ stale' = (stale \/ busy)
          /\ hist' = <<Call("remove", 0, "none", 0, 0, IF busy THEN -16 ELSE 0)>>
  /\ UNCHANGED <<hw, drvdata, oops, ctx, ppc, binds>>

(* ------------------------------------------------------------------ *)
(* The channel index check in front of the callbacks                  *)
(* ------------------------------------------------------------------ *)

\* the per-channel operations
ChannelOps == {"config", "enable", "disable", "set_polarity"}

\* the indices callers present: the valid ones and the first one past them
Indices == Channels \cup {NPWM}

\* an index check that lets the first index past the end through
InRangeInclusive(i) == i \in 0 .. NPWM

\* the bounds check on the channel index
InRange(i) == i \in Channels

\* an operation on an index out of range fails with InvalidChannel and
\* never reaches the callback; it starts the record of returned calls anew
InvalidChannel(op, i) ==
  /\ Callable
  /\ \A t \in Threads : pc[t] = "idle"
  /\ ~InRange(i)
  /\ hist' = <<Call(op, i, "none", 0, 0, -22)>>
  /\ UNCHANGED <<hw, ptr, registered, bound, drvdata, stale, oops, ctx, ppc, binds>>

Next ==
  \/ \E in \in ProbeInputs : bcm2835_pwm_probe(in)
  \/ \E busy \in BOOLEAN : bcm2835_pwm_remove(busy)
  \/ \E i \in Indices, a \in ConfigArgs :
       InRange(i) /\ bcm2835_pwm_config(i, a[1], a[2])
  \/ \E i \in Indices : InRange(i) /\ bcm2835_pwm_enable(i)
  \/ \E i \in Indices : InRange(i) /\ bcm2835_pwm_disable(i)
  \/ \E i \in Indices, p \in Polarities : InRange(i) /\ bcm2835_set_polarity(i, p)
  \/ \E i \in Indices, op \in ChannelOps : InvalidChannel(op, i)

Spec == Init /\ [][Next]_vars

(* ------------------------------------------------------------------ *)
(* The callbacks run from two execution contexts, one register access *)
(* per step.  The driver takes no lock and the PWM core does not      *)
(* serialise the callbacks of one chip.                               *)
(* ------------------------------------------------------------------ *)

\* ioread32(ptrPWM) of a read-modify-write: context t remembers the value
CtlRead(t, c, next) ==
  /\ Callable
  /\ pc[t] = "idle"
  /\ \E w \in BOOLEAN :
       /\ Usable("PWM", w)
       /\ IF w
          THEN /\ tmp' = [tmp EXCEPT ![t] = ctl]
               /\ cur' = [cur EXCEPT ![t] = c]
               /\ pc' = [pc EXCEPT ![t] = next]
               /\ UNCHANGED oops
          ELSE /\ oops' = TRUE
               /\ UNCHANGED ctx
  /\ UNCHANGED <<hw, ptr, registered, bound, drvdata, stale, hist, ppc, binds>>

\* iowrite32(.., ptrPWM) of a read-modify-write, and the return
CtlWrite(t, at, v) ==
  /\ ~oops
  /\ pc[t] = at
  /\ \E w \in BOOLEAN :
       /\ Usable("PWM", w)
       /\ IF w
          THEN /\ ctl' = v
               /\ pc' = [pc EXCEPT ![t] = "done"]
               /\ UNCHANGED oops
          ELSE /\ oops' = TRUE
               /\ UNCHANGED <<ctl, pc>>
  /\ UNCHANGED <<duty, period, clk, dv, alt, ptr, registered, bound, drvdata,
                 stale, hist, tmp, cur, ppc, binds>>

enable_read(t, i) ==
  CtlRead(t, Call("enable", i, "none", 0, 0, 0), "enable_write")

enable_write(t) ==
  CtlWrite(t, "enable_write", EnableVal(tmp[t]))

disable_read(t, i) ==
  CtlRead(t, Call("disable", i, "none", 0, 0, 0), "disable_write")

disable_write(t) ==
  CtlWrite(t, "disable_write", DisableVal(tmp[t]))

set_polarity_read(t, i, polarity) ==
  CtlRead(t, Call("set_polarity", i, polarity, 0, 0, 0), "set_polarity_write")

set_polarity_write(t) ==
  CtlWrite(t, "set_polarity_write", PolarityVal(tmp[t], cur[t].polarity))

\* iowrite32(duty_ns/1000, ptrDUTY)
config_duty(t, i, duty_ns, period_ns) ==
  /\ Callable
  /\ pc[t] = "idle"
  /\ \E w \in BOOLEAN :
       /\ Usable("DUTY", w)
       /\ IF w
          THEN /\ duty' = [duty EXCEPT ![0] = Ticks(duty_ns)]
               /\ cur' = [cur EXCEPT ![t] = Call("config", i, "none", duty_ns, period_ns, 0)]
               /\ pc' = [pc EXCEPT ![t] = "config_period"]
               /\ UNCHANGED oops
          ELSE /\ oops' = TRUE
               /\ UNCHANGED <<duty, cur, pc>>
  /\ UNCHANGED <<ctl, period, clk, dv, alt, ptr, registered, bound, drvdata,
                 stale, hist, tmp, ppc, binds>>

\* iowrite32(period_ns/1000, ptrPERIOD), and the return
config_period(t) ==
  /\ ~oops
  /\ pc[t] = "config_period"
  /\ \E w \in BOOLEAN :
       /\ Usable("PERIOD", w)
       /\ IF w
          THEN /\ period' = [period EXCEPT ![0] = Ticks(cur[t].period_ns)]
               /\ pc' = [pc EXCEPT ![t] = "done"]
               /\ UNCHANGED oops
          ELSE /\ oops' = TRUE
               /\ UNCHANGED <<period, pc>>
  /\ UNCHANGED <<ctl, duty, clk, dv, alt, ptr, registered, bound, drvdata,
                 stale, hist, tmp, cur, ppc, binds>>

NextConc ==
  \/ \E in \in ProbeInputs : bcm2835_pwm_probe(in)
  \/ \E t \in Threads, i \in Channels : enable_read(t, i)
  \/ \E t \in Threads : enable_write(t)
  \/ \E t \in Threads, i \in Channels : disable_read(t, i)
  \/ \E t \in Threads : disable_write(t)
  \/ \E t \in Threads, i \in Channels, p \in Polarities : set_polarity_read(t, i, p)
  \/ \E t \in Threads : set_polarity_write(t)
  \/ \E t \in Threads, i \in Channels, a \in ConfigArgs : config_duty(t, i, a[1], a[2])
  \/ \E t \in Threads : config_period(t)

SpecConc == Init /\ [][NextConc]_vars

(* ------------------------------------------------------------------ *)
(* probe and remove one call at a time, with the callbacks running    *)
(* in between: the PWM core may call them from pwmchip_add on         *)
(* ------------------------------------------------------------------ *)

\* the device is probed at most this many times
MaxBinds == 1

\* the <<duty_ns, period_ns>> pair consumers configure while the driver
\* is being bound or unbound
LifeArgs == {<<100000, 300000>>}

\* the register writes of probe with the divisor written first
ProbeWritesDivFirst == <<"ALT", "DIV", "CLK_OFF", "CLK_ON", "CTL">>

\* the register writes of probe, in program order
ProbeWrites == <<"ALT", "CLK_OFF", "DIV", "CLK_ON", "CTL">>

\* the pointer each of these writes goes through
WritePtr == [ALT |-> "ALT", CLK_OFF |-> "CLK", DIV |-> "DIV",
             CLK_ON |-> "CLK", CTL |-> "PWM"]

\* the iounmap calls of remove, in program order
UnmapOrder == <<"ALT", "PWM", "CLK", "DUTY", "PERIOD">>

\* probe up to and including pwmchip_add
probe_enter(in) ==
  /\ ~bound
  /\ ~oops
  /\ ppc = <<"idle", 0>>
  /\ binds < MaxBinds
  /\ binds' = binds + 1
  /\ IF in = "alloc"
     THEN /\ hist' = <<Call("probe", 0, "none", 0, 0, -12)>>
          /\ UNCHANGED <<registered, drvdata, ppc>>
     ELSE IF in = "res"
     THEN /\ hist' = <<Call("probe", 0, "none", 0, 0, -16)>>
          /\ UNCHANGED <<registered, drvdata, ppc>>
     ELSE IF in = "add"
     THEN /\ drvdata' = TRUE
          /\ hist' = <<Call("probe", 0, "none", 0, 0, -1)>>
          /\ UNCHANGED <<registered, ppc>>
     ELSE /\ drvdata' = TRUE
          /\ registered' = TRUE
          /\ hist' = <<>>
          /\ ppc' = <<"map", 1>>
  /\ UNCHANGED <<hw, ptr, bound, stale, oops, ctx>>

\* one ioremap_nocache and the NULL test after it; on map_failed the
\* result of pwmchip_remove is ignored
probe_ioremap(ok, busy) ==
  /\ ~oops
  /\ ppc[1] = "map"
  /\ LET r == MapOrder[ppc[2]]
         q == [ptr EXCEPT ![r] = IF ok THEN "mapped" ELSE "null"]
     IN  /\ ptr' = q
         /\ IF q[Tested[r]] = "null"
            THEN /\ registered' = FALSE
                 /\ stale' = (stale \/ busy)
                 /\ hist' = <<Call("probe", 0, "none", 0, 0, -1)>>
                 /\ ppc' = <<"idle", 0>>
            ELSE /\ ppc' = IF ppc[2] = Len(MapOrder) THEN <<"write", 1>>
                           ELSE <<"map", ppc[2] + 1>>
                 /\ UNCHANGED <<registered, stale, hist>>
  /\ UNCHANGED <<hw, bound, drvdata, oops, ctx, binds>>

\* one register write of probe; the last one is followed by return 0
probe_write ==
  /\ ~oops
  /\ ppc[1] = "write"
  /\ LET w == ProbeWrites[ppc[2]] IN
     \E u \in BOOLEAN :
       /\ Usable(WritePtr[w], u)
       /\ IF ~u
          THEN /\ oops' = TRUE
               /\ UNCHANGED <<hw, bound, hist, ppc>>
          ELSE /\ alt' = IF w = "ALT" THEN ProbeAltVal(alt) ELSE alt
               /\ clk' = IF w = "CLK_OFF" THEN PWMCLK_CNTL_OFF
                         ELSE IF w = "CLK_ON" THEN PWMCLK_CNTL_ON ELSE clk
               /\ dv' = IF w = "DIV" THEN PWMCLK_DIV ELSE dv
               /\ ctl' = IF w = "CTL" THEN ProbeCtlVal(ctl) ELSE ctl
               /\ IF ppc[2] = Len(ProbeWrites)
                  THEN /\ bound' = TRUE
                       /\ hist' = <<Call("probe", 0, "none", 0, 0, 0)>>
                       /\ ppc' = <<"idle", 0>>
                  ELSE /\ ppc' = <<"write", ppc[2] + 1>>
                       /\ UNCHANGED <<bound, hist>>
               /\ UNCHANGED <<duty, period, oops>>
  /\ UNCHANGED <<ptr, registered, drvdata, stale, ctx, binds>>

\* remove up to the WARN_ON
remove_enter ==
  /\ bound
  /\ ~oops
  /\ ppc = <<"idle", 0>>
  /\ IF ~drvdata
     THEN /\ bound' = FALSE
          /\ hist' = <<Call("remove", 0, "none", 0, 0, -19)>>
          /\ UNCHANGED ppc
     ELSE /\ ppc' = <<"unmap", 1>>
          /\ UNCHANGED <<bound, hist>>
  /\ UNCHANGED <<hw, ptr, registered, drvdata, stale, oops, ctx, binds>>

\* one iounmap of remove
remove_iounmap ==
  /\ ~oops
  /\ ppc[1] = "unmap"
  /\ LET r == UnmapOrder[ppc[2]] IN
       ptr' = [ptr EXCEPT ![r] = IF ptr[r] = "mapped" THEN "unmapped" ELSE ptr[r]]
  /\ ppc' = IF ppc[2] = Len(UnmapOrder) THEN <<"chip_remove", 0>>
            ELSE <<"unmap", ppc[2] + 1>>
  /\ UNCHANGED <<hw, registered, bound, drvdata, stale, oops, hist, ctx, binds>>

\* return pwmchip_remove(&pc->chip)
remove_chip(busy) ==
  /\ ~oops
  /\ ppc[1] = "chip_remove"
  /\ registered' = FALSE
  /\ stale' = (stale \/ busy)
  /\ bound' = FALSE
  /\ hist' = <<Call("remove", 0, "none", 0, 0, IF busy THEN -16 ELSE 0)>>
  /\ ppc' = <<"idle", 0>>
  /\ UNCHANGED <<hw, ptr, drvdata, oops, ctx, binds>>

NextLife ==
  \/ \E in \in {"alloc", "res", "add", "ok"} : probe_enter(in)
  \/ \E ok \in BOOLEAN, busy \in BOOLEAN : probe_ioremap(ok, busy)
  \/ probe_write
  \/ remove_enter
  \/ remove_iounmap
  \/ \E busy \in BOOLEAN : remove_chip(busy)
  \/ \E i \in Channels, a \in LifeArgs : bcm2835_pwm_config(i, a[1], a[2])
  \/ \E i \in Channels : bcm2835_pwm_enable(i)
  \/ \E i \in Channels : bcm2835_pwm_disable(i)
  \/ \E i \in Channels, p \in Polarities : bcm2835_set_polarity(i, p)

SpecLife == Init /\ [][NextLife]_vars

(* ------------------------------------------------------------------ *)
(* Properties                                                         *)
(* ------------------------------------------------------------------ *)

\* the documented layout of the control register: channel i owns the
\* eight bits from 8*i on, bit 0 of them is output enable, bit 4 polarity
Field(i) == {8 * i + b : b \in 0 .. 7}

EnableBit(i) == 8 * i

PolarityBit(i) == 8 * i + 4

\* the clock rate probe programs (divisor 19: "pwm clock set to 1Mhz")
ClockHz == 1000000

\* nanoseconds per tick at that rate
Scaler == 1000000000 \div ClockHz

Last == hist[Len(hist)]

\* the callback op has just returned
After(op) == ~oops /\ Len(hist) > 0 /\ Last.op = op

\* op2 on channel i has just returned and the callback before it was op1
\* on the same channel
Pair(op1, op2, i) ==
  /\ ~oops
  /\ Len(hist) = 2
  /\ hist[1].op = op1 /\ hist[1].hwpwm = i
  /\ hist[2].op = op2 /\ hist[2].hwpwm = i

\* C1: enable(i) leaves all eight bits of every other channel's field as
\* they were and sets the enable bit at bit 8*i.
C1_EnableIsolation ==
  \A i \in Channels, j \in Channels :
    (After("enable") /\ Last.hwpwm = i /\ i # j) =>
      /\ ctl \cap Field(j) = Last.ctl \cap Field(j)
      /\ EnableBit(i) \in ctl

\* C2: once a concurrent enable(0) and set_polarity(1, Inverted) have both
\* returned, channel 0's enable bit and channel 1's polarity bit are set.
C2_NoLostUpdate ==
  \A t \in Threads, u \in Threads :
    ( /\ t # u
      /\ ~oops
      /\ pc[t] = "done" /\ pc[u] = "done"
      /\ cur[t].op = "enable" /\ cur[t].hwpwm = 0
      /\ cur[u].op = "set_polarity" /\ cur[u].hwpwm = 1
      /\ cur[u].polarity = "PWM_POLARITY_INVERSED" ) =>
      /\ EnableBit(0) \in ctl
      /\ PolarityBit(1) \in ctl

\* C3: configure with period_ns <= 108 returns an error and leaves the duty
\* and period registers of every channel as they were.
C3_PeriodTooShort ==
  (After("config") /\ Last.period_ns <= 108) =>
    /\ Last.ret # 0
    /\ duty = Last.duty
    /\ period = Last.period

\* C4: after a successful configure(i, duty_ns, period_ns) channel i's duty
\* register holds duty_ns / scaler and its period register period_ns / scaler,
\* truncated, with scaler = 1e9 / clock frequency.
C4_TickConversion ==
  \A i \in Channels :
    (After("config") /\ Last.hwpwm = i /\ Last.ret = 0) =>
      /\ duty[i] = Last.duty_ns \div Scaler
      /\ period[i] = Last.period_ns \div Scaler

\* C5: configure(i, ..) leaves the duty and period registers of every other
\* channel as they were.
C5_PrivateRegisters ==
  \A i \in Channels, j \in Channels :
    (After("config") /\ Last.hwpwm = i /\ j # i) =>
      /\ duty[j] = Last.duty[j]
      /\ period[j] = Last.period[j]

C8_TeardownQuiet ==
  (After("remove") /\ Last.ret # -19) =>
    \A i \in Channels : EnableBit(i) \notin ctl

\* C9: set_polarity(i, p) clears (Normal) or sets (Inverted) the bit at
\* 8*i + 4 and changes no other bit of the control register.
C9_PolaritySingleBit ==
  \A i \in Channels :
    (After("set_polarity") /\ Last.hwpwm = i) =>
      ctl = IF Last.polarity = "PWM_POLARITY_NORMAL"
            THEN Last.ctl \ {PolarityBit(i)}
            ELSE Last.ctl \cup {PolarityBit(i)}

\* C10: a second enable(i) and a second disable(i) change nothing, and
\* disable(i) clears only the enable bit at channel i's bit offset.
C10_Idempotent ==
  \A i \in Channels :
    /\ Pair("enable", "enable", i) => ctl = hist[2].ctl
    /\ Pair("disable", "disable", i) => ctl = hist[2].ctl
    /\ (After("disable") /\ Last.hwpwm = i) => ctl = Last.ctl \ {EnableBit(i)}

\* C11: from the probe-time mode initialisation of channel 0 until the
\* first enable call the output-enable bit of the channel is 0.
C11_InactiveUntilEnabled ==
  ( /\ ~oops
    /\ Len(hist) > 0
    /\ hist[1].op = "probe" /\ hist[1].ret = 0
    /\ \A k \in 1 .. Len(hist) : hist[k].op # "enable" ) =>
    EnableBit(0) \notin ctl

C13_ConfigExclusive ==
  \A t \in Threads, u \in Threads, i \in Channels :
    ( /\ t # u
      /\ ~oops
      /\ pc[t] = "done" /\ pc[u] = "done"
      /\ cur[t].op = "config" /\ cur[t].hwpwm = i
      /\ cur[u].op = "config" /\ cur[u].hwpwm = i
      /\ <<cur[t].duty_ns, cur[t].period_ns>> # <<cur[u].duty_ns, cur[u].period_ns>> ) =>
      \E w \in {t, u} :
        /\ duty[i] = cur[w].duty_ns \div Scaler
        /\ period[i] = cur[w].period_ns \div Scaler

\* C16: a probe that returns 0 leaves none of the six pointers NULL, and a
\* probe that stopped on a failed mapping has not begun the register
\* writes (the clock is not left switched off).
C16_ProbeAllMapped ==
  /\ (After("probe") /\ Last.ret = 0) => \A r \in Regs : ptr[r] # "null"
  /\ (~bound /\ \E r \in Regs : ptr[r] = "null") => clk # PWMCLK_CNTL_OFF

\* C17: after a probe that failed and after remove, none of the six
\* pointers still refers to a live mapping.
C17_MappingBalance ==
  ((After("probe") /\ Last.ret # 0) \/ After("remove")) =>
    \A r \in Regs : ptr[r] # "mapped"

NextWrite == IF ppc[1] = "write" THEN ProbeWrites[ppc[2]] ELSE "none"

\* C15: a channel operation can start only while the control, duty and
\* period registers are mapped.
C15_OpsOnlyWhenMapped ==
  Callable => \A r \in {"PWM", "DUTY", "PERIOD"} : ptr[r] = "mapped"

\* C19: probe writes the divisor only while the clock is switched off,
\* switches the clock on only after the divisor is written, writes the
\* mode bits only with the clock switched on, and returns with the clock on.
C19_ClockOrder ==
  /\ NextWrite = "DIV" => clk = PWMCLK_CNTL_OFF
  /\ NextWrite = "CLK_ON" => (dv = PWMCLK_DIV /\ clk = PWMCLK_CNTL_OFF)
  /\ NextWrite = "CTL" => (dv = PWMCLK_DIV /\ clk = PWMCLK_CNTL_ON)
  /\ (After("probe") /\ Last.ret = 0) => clk = PWMCLK_CNTL_ON

\* probe has written the divisor and the clock and returned 0
C19_Witness ==
  /\ After("probe") /\ Last.ret = 0
  /\ ppc = <<"idle", 0>>
  /\ bound
  /\ dv = PWMCLK_DIV
  /\ clk = PWMCLK_CNTL_ON
  /\ ctl \cap Field(0) = CTL_PWM

====
